---- MODULE Spec2Model ----
(***************************************************************************)
(* SimpleToken (src/lib.rs): an ink! fungible-token contract.  Storage is   *)
(* three Mappings (balances, allowances, blacklisted) and two scalars       *)
(* (paused, owner).  Every #[ink(message)] is one action: the message body  *)
(* is an operator from the storage before the call to the message's return  *)
(* value, the storage as the body left it and the events it emitted; the    *)
(* contract dispatch then commits that storage on Ok and reverts it on Err. *)
(***************************************************************************)
EXTENDS Integers, Sequences, FiniteSets, TLC

\* ---------------------------------------------------------------- bounds
\* Width of the unsigned balance type in the model (u128 in the source).
MaxBalance == 3
\* Number of messages one behaviour sends to the contract.
MaxCalls == 3
\* Longest recipients / amounts vector passed to batch_transfer.
MaxBatch == 2

\* u128::MAX at the model's width.
U128_MAX == MaxBalance
u128 == 0 .. U128_MAX

\* AccountId values that call the contract and appear as arguments.
Accounts == {"alice", "bob", "carol"}
\* The account that deploys the contract. AccountIds are opaque and the code
\* only compares them, so one deployer stands for any.
Deployers == {"alice"}
\* Amount arguments: the small values, and the largest one.
Amounts == {0, 1, U128_MAX}
\* Recipients of a batch: two accounts, so that with every account as sender
\* a batch can leave the sender out, include it, and repeat a recipient.
BatchAccounts == {"alice", "bob"}
\* Amounts of a batch entry: the two add up to U128_MAX exactly.
BatchAmounts == {1, U128_MAX - 1}

VARIABLES
    balances,     \* Mapping<AccountId, u128>
    allowances,   \* Mapping<(AccountId, AccountId), u128>
    blacklisted,  \* Mapping<AccountId, bool>
    paused,       \* bool
    owner,        \* AccountId
    call,         \* the message in flight: its name, caller and arguments
    result,       \* what that message returned: Ok or the Err string
    events,       \* the events that message left in the block
    writes,       \* how many storage writes the message body made before returning
    supply,       \* history: amount minted minus amount burned, by successful calls
    granted,      \* history: per (owner, spender), the amount of the last approve
    moved,        \* history: per (owner, spender), the amount transfer_from has
                  \*          moved since that approve
    calls         \* history: number of messages sent so far

vars == <<balances, allowances, blacklisted, paused, owner,
          call, result, events, writes, supply, granted, moved, calls>>

\* ---------------------------------------------------------------- values
Ok == "Ok"
ErrOwner == "Only owner can call"
ErrPaused == "Contract is paused"
ErrBlacklisted == "Account is blacklisted"
ErrMintOverflow == "Overflow on mint"
ErrBurnUnderflow == "Underflow on burn"
ErrAllowance == "Allowance underflow"
ErrLengths == "Mismatched input lengths"
ErrBatchTotal == "Overflow in batch total"
ErrInsufficient == "Insufficient balance"
ErrRecipientOverflow == "Overflow in recipient balance"

\* Option<u128>: None is the empty sequence, Some(v) is <<v>>.
None == <<>>
Some(v) == <<v>>

\* u128::checked_add and u128::checked_sub.
checked_add_wrapping(a, b) == Some((a + b) % (U128_MAX + 1))
checked_add(a, b) == IF a + b <= U128_MAX THEN Some(a + b) ELSE None

checked_sub_wrapping(a, b) == Some((a - b) % (U128_MAX + 1))
checked_sub(a, b) == IF a >= b THEN Some(a - b) ELSE None

\* A Mapping is read only through get(k).unwrap_or(d), so a key never written
\* reads as d: the Mapping is the function that holds d at every such key.
\* Mapping::default(), Mapping::get(k).unwrap_or(d) and Mapping::insert(k, &v).
EmptyMapping(keys, d) == [k \in keys |-> d]
Get(m, k, d) == IF k \in DOMAIN m THEN m[k] ELSE d
Insert(m, k, v) == [m EXCEPT ![k] = v]

\* The events.
Mint(to, amount) == [event |-> "Mint", to |-> to, amount |-> amount]
Transfer(from, to, amount) ==
    [event |-> "Transfer", from |-> from, to |-> to, amount |-> amount]
Approval(o, spender, amount) ==
    [event |-> "Approval", owner |-> o, spender |-> spender, amount |-> amount]
Burn(from, amount) == [event |-> "Burn", from |-> from, amount |-> amount]

\* The contract storage as one value, with the count of writes made to it.
SimpleToken ==
    [balances |-> balances, allowances |-> allowances, blacklisted |-> blacklisted,
     paused |-> paused, owner |-> owner, writes |-> 0]

insert_balance(self, k, v) ==
    [self EXCEPT !.balances = Insert(@, k, v), !.writes = @ + 1]
insert_allowance(self, k, v) ==
    [self EXCEPT !.allowances = Insert(@, k, v), !.writes = @ + 1]
insert_blacklisted(self, k, v) ==
    [self EXCEPT !.blacklisted = Insert(@, k, v), !.writes = @ + 1]
set_paused(self, v) == [self EXCEPT !.paused = v, !.writes = @ + 1]

\* What a message body leaves behind: its return value, the storage as
\* written up to the return, the events emitted up to the return.
Ret(res, self, emitted) == [res |-> res, self |-> self, events |-> emitted]

\* A chain of `guard()?;` statements: the first Err of the chain, or Ok.
Guards(chain) ==
    IF \E i \in DOMAIN chain : chain[i] # Ok
    THEN chain[CHOOSE i \in DOMAIN chain :
                 chain[i] # Ok /\ \A j \in 1 .. i - 1 : chain[j] = Ok]
    ELSE Ok

\* ---------------------------------------------------------------- guards
ensure_owner_anyone(self, caller) == Ok
ensure_owner_unlisted(self, caller) ==
    IF caller # self.owner \/ Get(self.blacklisted, caller, FALSE) THEN ErrOwner ELSE Ok
ensure_owner(self, caller) == IF caller # self.owner THEN ErrOwner ELSE Ok

ensure_not_paused_never(self) == Ok
ensure_not_paused(self) == IF self.paused THEN ErrPaused ELSE Ok

ensure_not_blacklisted_never(self, account) == Ok
ensure_not_blacklisted(self, account) ==
    IF Get(self.blacklisted, account, FALSE) THEN ErrBlacklisted ELSE Ok

\* ---------------------------------------------------------------- queries
balance_of(a) == Get(balances, a, 0)
allowance(o, spender) == Get(allowances, <<o, spender>>, 0)
is_paused == paused
is_blacklisted(a) == Get(blacklisted, a, FALSE)

\* ---------------------------------------------------------------- messages
mint_overwrite(self, caller, to, amount) ==
    LET g == Guards(<<ensure_owner(self, caller), ensure_not_paused(self),
                      ensure_not_blacklisted(self, to)>>)
    IN  IF g # Ok THEN Ret(g, self, <<>>)
        ELSE Ret(Ok, insert_balance(self, to, amount), <<Mint(to, amount)>>)

mint(self, caller, to, amount) ==
    LET g == Guards(<<ensure_owner(self, caller), ensure_not_paused(self),
                      ensure_not_blacklisted(self, to)>>)
        current == Get(self.balances, to, 0)
        new_balance == checked_add(current, amount)
    IN  IF g # Ok THEN Ret(g, self, <<>>)
        ELSE IF new_balance = None THEN Ret(ErrMintOverflow, self, <<>>)
        ELSE Ret(Ok, insert_balance(self, to, new_balance[1]), <<Mint(to, amount)>>)

_transfer_to_anyone(self, from, to, amount) ==
    LET g == Guards(<<ensure_not_paused(self), ensure_not_blacklisted(self, from)>>)
        from_balance == Get(self.balances, from, 0)
        to_balance == Get(self.balances, to, 0)
        new_from == checked_sub(from_balance, amount)
        new_to == checked_add(to_balance, amount)
    IN  IF g # Ok THEN Ret(g, self, <<>>)
        ELSE IF new_from = None THEN Ret(ErrInsufficient, self, <<>>)
        ELSE IF new_to = None THEN Ret(ErrRecipientOverflow, self, <<>>)
        ELSE Ret(Ok,
                 insert_balance(insert_balance(self, from, new_from[1]), to, new_to[1]),
                 <<Transfer(from, to, amount)>>)

_transfer(self, from, to, amount) ==
    LET g == Guards(<<ensure_not_paused(self), ensure_not_blacklisted(self, from),
                      ensure_not_blacklisted(self, to)>>)
        from_balance == Get(self.balances, from, 0)
        to_balance == Get(self.balances, to, 0)
        new_from == checked_sub(from_balance, amount)
        new_to == checked_add(to_balance, amount)
    IN  IF g # Ok THEN Ret(g, self, <<>>)
        ELSE IF new_from = None THEN Ret(ErrInsufficient, self, <<>>)
        ELSE IF new_to = None THEN Ret(ErrRecipientOverflow, self, <<>>)
        ELSE Ret(Ok,
                 insert_balance(insert_balance(self, from, new_from[1]), to, new_to[1]),
                 <<Transfer(from, to, amount)>>)

transfer(self, caller, to, amount) == _transfer(self, caller, to, amount)

burn_owner_only(self, caller, amount) ==
    LET g == Guards(<<ensure_owner(self, caller), ensure_not_paused(self),
                      ensure_not_blacklisted(self, caller)>>)
        balance == Get(self.balances, caller, 0)
        new_balance == checked_sub(balance, amount)
    IN  IF g # Ok THEN Ret(g, self, <<>>)
        ELSE IF new_balance = None THEN Ret(ErrBurnUnderflow, self, <<>>)
        ELSE Ret(Ok, insert_balance(self, caller, new_balance[1]),
                 <<Burn(caller, amount)>>)

burn(self, caller, amount) ==
    LET g == Guards(<<ensure_not_paused(self), ensure_not_blacklisted(self, caller)>>)
        balance == Get(self.balances, caller, 0)
        new_balance == checked_sub(balance, amount)
    IN  IF g # Ok THEN Ret(g, self, <<>>)
        ELSE IF new_balance = None THEN Ret(ErrBurnUnderflow, self, <<>>)
        ELSE Ret(Ok, insert_balance(self, caller, new_balance[1]),
                 <<Burn(caller, amount)>>)

approve_additive(self, caller, spender, amount) ==
    LET g == Guards(<<ensure_not_paused(self), ensure_not_blacklisted(self, caller)>>)
        sum == checked_add(Get(self.allowances, <<caller, spender>>, 0), amount)
    IN  IF g # Ok THEN Ret(g, self, <<>>)
        ELSE Ret(Ok,
                 insert_allowance(self, <<caller, spender>>,
                                  IF sum = None THEN U128_MAX ELSE sum[1]),
                 <<Approval(caller, spender, amount)>>)

approve(self, caller, spender, amount) ==
    LET g == Guards(<<ensure_not_paused(self), ensure_not_blacklisted(self, caller)>>)
    IN  IF g # Ok THEN Ret(g, self, <<>>)
        ELSE Ret(Ok, insert_allowance(self, <<caller, spender>>, amount),
                 <<Approval(caller, spender, amount)>>)

transfer_from_unchecked(self, caller, from, to, amount) ==
    _transfer(self, from, to, amount)

transfer_from_write_first(self, caller, from, to, amount) ==
    LET spender == caller
        current == Get(self.allowances, <<from, spender>>, 0)
        new_allowance == checked_sub(current, amount)
        written == insert_allowance(self, <<from, spender>>, new_allowance[1])
        g == Guards(<<ensure_not_paused(self), ensure_not_blacklisted(self, spender),
                      ensure_not_blacklisted(self, from),
                      ensure_not_blacklisted(self, to)>>)
    IN  IF new_allowance = None THEN Ret(ErrAllowance, self, <<>>)
        ELSE IF g # Ok THEN Ret(g, written, <<>>)
        ELSE _transfer(written, from, to, amount)

transfer_from_self_free(self, caller, from, to, amount) ==
    LET spender == caller
        g == Guards(<<ensure_not_paused(self), ensure_not_blacklisted(self, spender),
                      ensure_not_blacklisted(self, from),
                      ensure_not_blacklisted(self, to)>>)
        current == Get(self.allowances, <<from, spender>>, 0)
        new_allowance == checked_sub(current, amount)
    IN  IF g # Ok THEN Ret(g, self, <<>>)
        ELSE IF spender = from THEN _transfer(self, from, to, amount)
        ELSE IF new_allowance = None THEN Ret(ErrAllowance, self, <<>>)
        ELSE _transfer(insert_allowance(self, <<from, spender>>, new_allowance[1]),
                       from, to, amount)

transfer_from_any_spender(self, caller, from, to, amount) ==
    LET spender == caller
        g == Guards(<<ensure_not_paused(self), ensure_not_blacklisted(self, from),
                      ensure_not_blacklisted(self, to)>>)
        current == Get(self.allowances, <<from, spender>>, 0)
        new_allowance == checked_sub(current, amount)
    IN  IF g # Ok THEN Ret(g, self, <<>>)
        ELSE IF new_allowance = None THEN Ret(ErrAllowance, self, <<>>)
        ELSE _transfer(insert_allowance(self, <<from, spender>>, new_allowance[1]),
                       from, to, amount)

transfer_from(self, caller, from, to, amount) ==
    LET spender == caller
        g == Guards(<<ensure_not_paused(self), ensure_not_blacklisted(self, spender),
                      ensure_not_blacklisted(self, from),
                      ensure_not_blacklisted(self, to)>>)
        current == Get(self.allowances, <<from, spender>>, 0)
        new_allowance == checked_sub(current, amount)
    IN  IF g # Ok THEN Ret(g, self, <<>>)
        ELSE IF new_allowance = None THEN Ret(ErrAllowance, self, <<>>)
        ELSE _transfer(insert_allowance(self, <<from, spender>>, new_allowance[1]),
                       from, to, amount)

pause(self, caller) ==
    LET g == ensure_owner(self, caller)
    IN  IF g # Ok THEN Ret(g, self, <<>>) ELSE Ret(Ok, set_paused(self, TRUE), <<>>)

unpause(self, caller) ==
    LET g == ensure_owner(self, caller)
    IN  IF g # Ok THEN Ret(g, self, <<>>) ELSE Ret(Ok, set_paused(self, FALSE), <<>>)

blacklist_as_owner(self, caller, account) ==
    LET g == ensure_owner(self, caller)
    IN  IF g # Ok THEN Ret(g, self, <<>>)
        ELSE Ret(Ok, [self EXCEPT !.owner = account, !.writes = @ + 1], <<>>)

blacklist_and_seize(self, caller, account) ==
    LET g == ensure_owner(self, caller)
    IN  IF g # Ok THEN Ret(g, self, <<>>)
        ELSE Ret(Ok,
                 insert_balance(insert_blacklisted(self, account, TRUE), account, 0),
                 <<>>)

blacklist(self, caller, account) ==
    LET g == ensure_owner(self, caller)
    IN  IF g # Ok THEN Ret(g, self, <<>>)
        ELSE Ret(Ok, insert_blacklisted(self, account, TRUE), <<>>)

unblacklist(self, caller, account) ==
    LET g == ensure_owner(self, caller)
    IN  IF g # Ok THEN Ret(g, self, <<>>)
        ELSE Ret(Ok, insert_blacklisted(self, account, FALSE), <<>>)

\* `for amount in &amounts { total = total.checked_add(*amount)...? }`, from
\* entry i on with the running total so far: Some(total), or None on overflow.
batch_total_last(amounts, i, total) ==
    IF Len(amounts) = 0 THEN Some(0) ELSE Some(amounts[Len(amounts)])

RECURSIVE batch_total(_, _, _)
batch_total(amounts, i, total) ==
    IF i > Len(amounts) THEN Some(total)
    ELSE LET next == checked_add(total, amounts[i])
         IN  IF next = None THEN None ELSE batch_total(amounts, i + 1, next[1])

\* `for (i, recipient) in recipients.iter().enumerate() { ... }`, from entry i on.
RECURSIVE batch_credit(_, _, _, _, _, _)
batch_credit(self, sender, recipients, amounts, i, emitted) ==
    IF i > Len(recipients) THEN Ret(Ok, self, emitted)
    ELSE LET recipient == recipients[i]
             g == ensure_not_blacklisted(self, recipient)
             current == Get(self.balances, recipient, 0)
             updated == checked_add(current, amounts[i])
         IN  IF g # Ok THEN Ret(g, self, emitted)
             ELSE IF updated = None THEN Ret(ErrRecipientOverflow, self, emitted)
             ELSE batch_credit(insert_balance(self, recipient, updated[1]),
                               sender, recipients, amounts, i + 1,
                               Append(emitted, Transfer(sender, recipient, amounts[i])))

batch_transfer(self, caller, recipients, amounts) ==
    LET sender == caller
        g == Guards(<<ensure_not_paused(self), ensure_not_blacklisted(self, sender)>>)
        total == batch_total(amounts, 1, 0)
        sender_balance == Get(self.balances, sender, 0)
        new_sender_balance == checked_sub(sender_balance, total[1])
    IN  IF g # Ok THEN Ret(g, self, <<>>)
        ELSE IF Len(recipients) # Len(amounts) THEN Ret(ErrLengths, self, <<>>)
        ELSE IF total = None THEN Ret(ErrBatchTotal, self, <<>>)
        ELSE IF new_sender_balance = None THEN Ret(ErrInsufficient, self, <<>>)
        ELSE batch_credit(insert_balance(self, sender, new_sender_balance[1]),
                          sender, recipients, amounts, 1, <<>>)

\* ---------------------------------------------------------------- dispatch
\* The contract's message dispatch: a message that returns Err reverts, so its
\* storage writes and events are dropped; a message that returns Ok commits.
dispatch_no_revert(self, r) == r
dispatch(self, r) ==
    IF r.res = Ok THEN r ELSE Ret(r.res, [self EXCEPT !.writes = r.self.writes], <<>>)

NoCall == [op |-> "none"]

\* The contract takes one message at a time, MaxCalls of them in all.
Idle == call = NoCall /\ calls < MaxCalls

\* One message: `c` names it, `r` is what its body does on the current storage.
Message(c, r) ==
    LET out == dispatch(SimpleToken, r)
    IN  /\ balances' = out.self.balances
        /\ allowances' = out.self.allowances
        /\ blacklisted' = out.self.blacklisted
        /\ paused' = out.self.paused
        /\ owner' = out.self.owner
        /\ call' = c
        /\ result' = out.res
        /\ events' = out.events
        /\ writes' = out.self.writes
        /\ supply' = supply + (IF c.op = "mint" /\ out.res = Ok THEN c.amount ELSE 0)
                            - (IF c.op = "burn" /\ out.res = Ok THEN c.amount ELSE 0)
        /\ granted' = IF c.op = "approve" /\ out.res = Ok
                      THEN [granted EXCEPT ![<<c.caller, c.spender>>] = c.amount]
                      ELSE granted
        /\ moved' = IF c.op = "approve" /\ out.res = Ok
                    THEN [moved EXCEPT ![<<c.caller, c.spender>>] = 0]
                    ELSE IF c.op = "transfer_from" /\ out.res = Ok
                    THEN [moved EXCEPT ![<<c.from, c.caller>>] = @ + c.amount]
                    ELSE moved
        /\ calls' = calls + 1

\* ---------------------------------------------------------------- actions
\* new(): empty mappings, not paused, the deploying caller is the owner.
Init ==
    /\ balances = EmptyMapping(Accounts, 0)
    /\ allowances = EmptyMapping(Accounts \X Accounts, 0)
    /\ blacklisted = EmptyMapping(Accounts, FALSE)
    /\ paused = FALSE
    /\ owner \in Deployers
    /\ call = NoCall
    /\ result = Ok
    /\ events = <<>>
    /\ writes = 0
    /\ supply = 0
    /\ granted = [k \in Accounts \X Accounts |-> 0]
    /\ moved = [k \in Accounts \X Accounts |-> 0]
    /\ calls = 0

CallMint ==
    /\ Idle
    /\ \E caller \in Accounts, to \in Accounts, amount \in Amounts :
        Message([op |-> "mint", caller |-> caller, to |-> to, amount |-> amount],
                mint(SimpleToken, caller, to, amount))

CallTransfer ==
    /\ Idle
    /\ \E caller \in Accounts, to \in Accounts, amount \in Amounts :
        Message([op |-> "transfer", caller |-> caller, to |-> to, amount |-> amount],
                transfer(SimpleToken, caller, to, amount))

CallBurn ==
    /\ Idle
    /\ \E caller \in Accounts, amount \in Amounts :
        Message([op |-> "burn", caller |-> caller, amount |-> amount],
                burn(SimpleToken, caller, amount))

CallApprove ==
    /\ Idle
    /\ \E caller \in Accounts, spender \in Accounts, amount \in Amounts :
        Message([op |-> "approve", caller |-> caller, spender |-> spender,
                 amount |-> amount],
                approve(SimpleToken, caller, spender, amount))

CallTransferFrom ==
    /\ Idle
    /\ \E caller \in Accounts, from \in Accounts, to \in Accounts, amount \in Amounts :
        Message([op |-> "transfer_from", caller |-> caller, from |-> from, to |-> to,
                 amount |-> amount],
                transfer_from(SimpleToken, caller, from, to, amount))

CallPause ==
    /\ Idle
    /\ \E caller \in Accounts :
        Message([op |-> "pause", caller |-> caller], pause(SimpleToken, caller))

CallUnpause ==
    /\ Idle
    /\ \E caller \in Accounts :
        Message([op |-> "unpause", caller |-> caller], unpause(SimpleToken, caller))

CallBlacklist ==
    /\ Idle
    /\ \E caller \in Accounts, account \in Accounts :
        Message([op |-> "blacklist", caller |-> caller, account |-> account],
                blacklist(SimpleToken, caller, account))

CallUnblacklist ==
    /\ Idle
    /\ \E caller \in Accounts, account \in Accounts :
        Message([op |-> "unblacklist", caller |-> caller, account |-> account],
                unblacklist(SimpleToken, caller, account))

\* The argument vectors of a batch: every vector up to MaxBatch long.
Vectors(S) == UNION {[1 .. n -> S] : n \in 0 .. MaxBatch}

\* The vectors are of equal length, or one of the two is empty.
CallBatchTransfer ==
    /\ Idle
    /\ \E caller \in Accounts, recipients \in Vectors(BatchAccounts),
          amounts \in Vectors(BatchAmounts) :
        /\ Len(recipients) = Len(amounts) \/ Len(recipients) = 0 \/ Len(amounts) = 0
        /\ Message([op |-> "batch_transfer", caller |-> caller,
                 recipients |-> recipients, amounts |-> amounts],
                batch_transfer(SimpleToken, caller, recipients, amounts))

\* The call returns to its caller: the next message can be sent.
Return ==
    /\ call # NoCall
    /\ call' = NoCall
    /\ result' = Ok
    /\ events' = <<>>
    /\ writes' = 0
    /\ UNCHANGED <<balances, allowances, blacklisted, paused, owner,
                   supply, granted, moved, calls>>

Next ==
    \/ CallMint
    \/ CallTransfer
    \/ CallBurn
    \/ CallApprove
    \/ CallTransferFrom
    \/ CallPause
    \/ CallUnpause
    \/ CallBlacklist
    \/ CallUnblacklist
    \/ CallBatchTransfer
    \/ Return

Spec == Init /\ [][Next]_vars

\* ---------------------------------------------------------------- properties
\* Sum of f over the keys S.
RECURSIVE SumOver(_, _)
SumOver(f, S) ==
    IF S = {} THEN 0
    ELSE LET x == CHOOSE y \in S : TRUE IN f[x] + SumOver(f, S \ {x})

TotalBalance == SumOver(balances, Accounts)
SeqSum(s) == SumOver(s, DOMAIN s)

Storage == <<balances, allowances, blacklisted, paused, owner>>

\* A message has just returned (the step that made this state sent it).
Returned(op) == call.op = op
MutatingOps == {"mint", "transfer", "burn", "approve", "transfer_from", "batch_transfer"}
OwnerOps == {"mint", "pause", "unpause", "blacklist", "unblacklist"}

\* C1: in every reachable state the sum of all balances equals the amount
\* successfully minted minus the amount successfully burned (so transfer,
\* transfer_from and batch_transfer leave the sum unchanged, also when the
\* destination is the source).
C1_SumIsMintedMinusBurned == TotalBalance = supply

\* C2: every call that returns an error leaves balances, allowances, the
\* blacklist, the paused flag and the owner as they were before the call and
\* emits no event, also when the message body had already written storage.
C2_ErrorChangesNothing ==
    [][(call'.op # "none" /\ result' # Ok) => (Storage' = Storage /\ events' = <<>>)]_vars

\* C2 happens: a transfer_from failed in the balance move, after its body had
\* written the decremented allowance.
C2_Witness ==
    /\ Returned("transfer_from")
    /\ result = ErrInsufficient
    /\ writes > 0
    /\ allowance(call.from, call.caller) >= call.amount

\* C3 as stated: while paused, every mint, transfer, burn, approve,
\* transfer_from and batch_transfer, by any caller with any arguments, fails
\* with the paused error and changes no balance or allowance; pause and
\* unpause by the owner succeed.
C3_AsStated ==
    [][paused =>
        /\ call'.op \in MutatingOps =>
              result' = ErrPaused /\ UNCHANGED <<balances, allowances>>
        /\ (call'.op \in {"pause", "unpause"} /\ call'.caller = owner) => result' = Ok
      ]_vars

\* C3 amended: while paused, transfer, burn, approve, transfer_from and
\* batch_transfer by any caller, and mint by the owner, fail with the paused
\* error; mint by another caller fails with the owner error, which is checked
\* first; none of them writes storage; pause and unpause by the owner succeed
\* and the queries return their values.
C3_PausedBlocksMutation ==
    [][paused =>
        /\ call'.op \in MutatingOps =>
              /\ result' = IF call'.op = "mint" /\ call'.caller # owner
                           THEN ErrOwner ELSE ErrPaused
              /\ UNCHANGED <<balances, allowances>>
              /\ writes' = 0
        /\ (call'.op \in {"pause", "unpause"} /\ call'.caller = owner) => result' = Ok
        /\ is_paused
        /\ \A a \in Accounts :
              /\ balance_of(a) = balances[a]
              /\ is_blacklisted(a) = blacklisted[a]
              /\ \A b \in Accounts : allowance(a, b) = allowances[<<a, b>>]
      ]_vars

\* C3 happens: the owner's mint was refused because the contract is paused.
C3_Witness ==
    /\ paused
    /\ Returned("mint")
    /\ call.caller = owner
    /\ result = ErrPaused

\* C4: mint, pause, unpause, blacklist and unblacklist by a caller other than
\* the owner fail with the owner error and change no state; so the paused flag
\* and the blacklist change only in calls by the owner, and the sum of all
\* balances increases only in calls by the owner.
C4_OnlyOwner ==
    [][/\ (call'.op \in OwnerOps /\ call'.caller # owner) =>
              result' = ErrOwner /\ Storage' = Storage
       /\ (paused' # paused \/ blacklisted' # blacklisted) => call'.caller = owner
       /\ TotalBalance' > TotalBalance => call'.caller = owner
      ]_vars

\* Whether call c, sent on the current storage, names a blacklisted account as
\* source, destination, batch recipient, mint recipient, burner or approver.
C5_NamesBlacklisted(c) ==
    CASE c.op = "mint" -> is_blacklisted(c.to)
      [] c.op = "transfer" -> is_blacklisted(c.caller) \/ is_blacklisted(c.to)
      [] c.op = "burn" -> is_blacklisted(c.caller)
      [] c.op = "approve" -> is_blacklisted(c.caller)
      [] c.op = "transfer_from" -> is_blacklisted(c.from) \/ is_blacklisted(c.to)
      [] c.op = "batch_transfer" ->
            \/ is_blacklisted(c.caller)
            \/ \E i \in DOMAIN c.recipients : is_blacklisted(c.recipients[i])
      [] OTHER -> FALSE

\* For a batch c sent on the current storage: the sum of its amounts, and the
\* balance of a once the sender is debited and entries 1 .. j are credited.
BatchTotal(c) == SeqSum(c.amounts)
BatchBalance(c, a, j) ==
    balances[a] - (IF a = c.caller THEN BatchTotal(c) ELSE 0)
                + SumOver(c.amounts, {k \in 1 .. j : c.recipients[k] = a})
CreditOverflowsBefore(c, i) ==
    \E j \in 1 .. i - 1 : BatchBalance(c, c.recipients[j], j) > U128_MAX
FirstBlacklisted(c) ==
    CHOOSE i \in DOMAIN c.recipients :
        /\ is_blacklisted(c.recipients[i])
        /\ \A j \in 1 .. i - 1 : ~is_blacklisted(c.recipients[j])

\* A check that call c reaches before the blacklist check of the account it
\* names fails.
C5_FailsEarlier(c) ==
    \/ paused
    \/ c.op = "mint" /\ c.caller # owner
    \/ /\ c.op = "batch_transfer"
       /\ ~is_blacklisted(c.caller)
       /\ \/ Len(c.recipients) # Len(c.amounts)
          \/ BatchTotal(c) > U128_MAX
          \/ balances[c.caller] < BatchTotal(c)
          \/ CreditOverflowsBefore(c, FirstBlacklisted(c))

\* C5 as stated: every mint, transfer, burn, approve, transfer_from and
\* batch_transfer that names a blacklisted account fails with the blacklist
\* error.
C5_AsStated ==
    [][C5_NamesBlacklisted(call') => result' = ErrBlacklisted]_vars

\* C5 amended: every such call fails and changes nothing; it fails with the
\* blacklist error unless a check the call reaches earlier fails (the owner
\* check of mint, the pause check, and for a blacklisted batch recipient the
\* length check, the overflow of the total, the sender's balance and the credit
\* of an earlier recipient), and then it fails with that check's error.
C5_BlacklistedPartyFails ==
    [][C5_NamesBlacklisted(call') =>
        /\ result' # Ok
        /\ Storage' = Storage
        /\ result' = ErrBlacklisted <=> ~C5_FailsEarlier(call')
      ]_vars

\* C5 happens: a batch was refused at a blacklisted recipient, after the body
\* had debited the sender, who is not blacklisted.
C5_Witness ==
    /\ Returned("batch_transfer")
    /\ result = ErrBlacklisted
    /\ ~is_blacklisted(call.caller)
    /\ writes > 0

C7_TransferMovesExactly ==
    [][call'.op = "transfer" =>
        LET from == call'.caller
            to == call'.to
            n == call'.amount
        IN  /\ (result' = Ok /\ from # to) =>
                balances' = [balances EXCEPT ![from] = @ - n, ![to] = @ + n]
            /\ n > balance_of(from) => result' # Ok /\ UNCHANGED balances
            /\ (/\ n > balance_of(from)
                /\ ~paused /\ ~is_blacklisted(from) /\ ~is_blacklisted(to))
               => result' = ErrInsufficient
      ]_vars

\* C7 happens: a positive amount moved to another account while the third
\* account held a balance.
C7_Witness ==
    /\ Returned("transfer")
    /\ result = Ok
    /\ call.amount > 0
    /\ call.caller # call.to
    /\ \E a \in Accounts \ {call.caller, call.to} : balance_of(a) > 0

\* C8: a successful batch_transfer by s debits s by the sum of the amounts
\* with one write, credits each recipient by the sum of the amounts of its
\* entries, and emits one Transfer{s, recipient_i, amount_i} per entry in input
\* order; with balance_of(s) < sum(amounts) it fails and changes nothing, with
\* the insufficient-balance error when it passes the checks before the debit.
C8_BatchDebitsAndCredits ==
    [][call'.op = "batch_transfer" =>
        LET c == call'
            s == call'.caller
        IN  /\ result' = Ok =>
                /\ Len(c.recipients) = Len(c.amounts)
                /\ balances' =
                     [a \in Accounts |-> BatchBalance(c, a, Len(c.recipients))]
                /\ balances'[s] + SeqSum(c.amounts)
                     = balances[s] + SumOver(c.amounts,
                                             {k \in DOMAIN c.amounts : c.recipients[k] = s})
                /\ Len(events') = Len(c.recipients)
                /\ \A i \in DOMAIN c.recipients :
                       events'[i] = Transfer(s, c.recipients[i], c.amounts[i])
                /\ writes' = 1 + Len(c.recipients)
                /\ UNCHANGED allowances
            /\ (Len(c.recipients) = Len(c.amounts) /\ balance_of(s) < BatchTotal(c)) =>
                /\ result' # Ok
                /\ Storage' = Storage
                /\ events' = <<>>
            /\ (/\ Len(c.recipients) = Len(c.amounts)
                /\ ~paused /\ ~is_blacklisted(s)
                /\ BatchTotal(c) <= U128_MAX
                /\ balance_of(s) < BatchTotal(c))
               => result' = ErrInsufficient /\ writes' = 0
      ]_vars

\* C8 happens: a batch of two entries with different amounts went through.
C8_Witness ==
    /\ Returned("batch_transfer")
    /\ result = Ok
    /\ Len(call.recipients) = 2
    /\ call.amounts[1] # call.amounts[2]
    /\ Len(events) = 2

\* Every balance and every allowance is a u128.
InRange ==
    /\ \A a \in Accounts : balances[a] \in u128
    /\ \A k \in Accounts \X Accounts : allowances[k] \in u128

\* C9: every balance and allowance stays within 0 .. u128::MAX and nothing
\* wraps: a debit or allowance spend above the current value fails; a credit
\* (mint, transfer destination, batch recipient) that would pass u128::MAX
\* fails, and so does a batch whose total would pass it, each with its
\* overflow error when the call passes the checks made before it.
C9_NoWrap ==
    [][/\ InRange /\ InRange'
       /\ call'.op = "mint" =>
            LET to == call'.to
                n == call'.amount
            IN  /\ balances[to] + n > U128_MAX => result' # Ok /\ Storage' = Storage
                /\ (/\ balances[to] + n > U128_MAX
                    /\ call'.caller = owner /\ ~paused /\ ~is_blacklisted(to))
                   => result' = ErrMintOverflow
       /\ call'.op = "burn" =>
            LET n == call'.amount
                c == call'.caller
            IN  /\ n > balances[c] => result' # Ok /\ Storage' = Storage
                /\ (n > balances[c] /\ ~paused /\ ~is_blacklisted(c))
                   => result' = ErrBurnUnderflow
       /\ call'.op \in {"transfer", "transfer_from"} =>
            LET from == IF call'.op = "transfer" THEN call'.caller ELSE call'.from
                to == call'.to
                n == call'.amount
                spent == call'.op = "transfer_from"
            IN  /\ (n > balances[from] \/ balances[to] + n > U128_MAX
                      \/ (spent /\ n > allowances[<<from, call'.caller>>]))
                   => result' # Ok /\ Storage' = Storage
                /\ (/\ balances[to] + n > U128_MAX
                    /\ n <= balances[from]
                    /\ spent => n <= allowances[<<from, call'.caller>>]
                    /\ spent => ~is_blacklisted(call'.caller)
                    /\ ~paused /\ ~is_blacklisted(from) /\ ~is_blacklisted(to))
                   => result' = ErrRecipientOverflow
       /\ (call'.op = "batch_transfer" /\ Len(call'.recipients) = Len(call'.amounts)) =>
            LET c == call'
                s == call'.caller
                checked == ~paused /\ ~is_blacklisted(s)
                overflows(j) == BatchBalance(c, c.recipients[j], j) > U128_MAX
            IN  /\ BatchTotal(c) > U128_MAX =>
                    /\ result' # Ok /\ Storage' = Storage
                    /\ checked => result' = ErrBatchTotal
                /\ (BatchTotal(c) <= U128_MAX /\ BatchTotal(c) > balances[s]) =>
                    /\ result' # Ok /\ Storage' = Storage
                /\ (/\ BatchTotal(c) <= balances[s]
                    /\ \E j \in DOMAIN c.recipients : overflows(j))
                   => /\ result' # Ok /\ Storage' = Storage
                      /\ (/\ checked
                          /\ \A j \in DOMAIN c.recipients : ~is_blacklisted(c.recipients[j]))
                         => result' = ErrRecipientOverflow
      ]_vars

\* C9 happens: a mint by the owner was refused because the recipient's balance
\* would pass u128::MAX.
C9_Witness ==
    /\ Returned("mint")
    /\ result = ErrMintOverflow
    /\ balances[call.to] + call.amount > U128_MAX

\* C10: a successful mint(to, n) is a call by the owner; it raises
\* balance_of(to) by n and the sum of all balances by n, changes no other
\* balance and no allowance, and emits the one event Mint{to, n}.
C10_MintCreditsExactly ==
    [][(call'.op = "mint" /\ result' = Ok) =>
        /\ call'.caller = owner
        /\ balances' = [balances EXCEPT ![call'.to] = @ + call'.amount]
        /\ TotalBalance' = TotalBalance + call'.amount
        /\ UNCHANGED allowances
        /\ events' = <<Mint(call'.to, call'.amount)>>
      ]_vars

\* C10 happens: a positive amount was minted to an account that already held
\* a balance.
C10_Witness ==
    /\ Returned("mint")
    /\ result = Ok
    /\ call.amount > 0
    /\ balances[call.to] > call.amount

\* C11: a successful burn(n) by c lowers balance_of(c) and the sum of all
\* balances by n and changes no other balance; with n > balance_of(c) it fails
\* and changes nothing, with the burn underflow error when it passes the pause
\* and blacklist checks; burn asks for no owner right, so it succeeds for any
\* caller that passes those checks and holds n, and it writes the caller's
\* balance only.
C11_BurnDebitsCaller ==
    [][call'.op = "burn" =>
        LET c == call'.caller
            n == call'.amount
        IN  /\ result' = Ok =>
                /\ balances' = [balances EXCEPT ![c] = @ - n]
                /\ TotalBalance' = TotalBalance - n
                /\ UNCHANGED <<allowances, blacklisted, paused, owner>>
                /\ events' = <<Burn(c, n)>>
            /\ n > balance_of(c) => result' # Ok /\ Storage' = Storage
            /\ (n > balance_of(c) /\ ~paused /\ ~is_blacklisted(c))
               => result' = ErrBurnUnderflow
            /\ (n <= balance_of(c) /\ ~paused /\ ~is_blacklisted(c)) => result' = Ok
            /\ \A a \in Accounts \ {c} : balances'[a] = balances[a]
      ]_vars

\* C11 happens: an account that is not the owner burned a positive amount
\* while another account held a balance.
C11_Witness ==
    /\ Returned("burn")
    /\ result = Ok
    /\ call.amount > 0
    /\ call.caller # owner
    /\ \E a \in Accounts \ {call.caller} : balance_of(a) > 0

\* C12: a successful approve(s, n) by o leaves allowance(o, s) = n whatever it
\* was, and no other allowance and no balance changed; approve succeeds for
\* every n, also above balance_of(o), when it passes the pause and blacklist
\* checks.
C12_ApproveOverwrites ==
    [][call'.op = "approve" =>
        LET o == call'.caller
            s == call'.spender
            n == call'.amount
        IN  /\ result' = Ok =>
                /\ allowances' = [allowances EXCEPT ![<<o, s>>] = n]
                /\ Get(allowances', <<o, s>>, 0) = n
                /\ UNCHANGED <<balances, blacklisted, paused, owner>>
                /\ events' = <<Approval(o, s, n)>>
            /\ (~paused /\ ~is_blacklisted(o)) => result' = Ok
      ]_vars

\* C12 happens: an approve above the approver's balance went through, after
\* an earlier call.
C12_Witness ==
    /\ Returned("approve")
    /\ result = Ok
    /\ call.amount > balance_of(call.caller)
    /\ allowance(call.caller, call.spender) = call.amount
    /\ calls >= 2

\* The errors of the three guards.
GuardErrors == {ErrOwner, ErrPaused, ErrBlacklisted}

\* C13 as stated: in every operation all guard checks come before the first
\* storage write, so no message writes storage and then fails on a guard;
\* batch_transfer's check of each recipient included.
C13_AsStated ==
    [][result' \in GuardErrors => writes' = 0]_vars

\* C13 amended: in every operation but batch_transfer the guard checks come
\* before the first storage write. batch_transfer checks the pause flag and
\* the sender before it writes, and each recipient's blacklist entry after it
\* wrote the sender's debit and the earlier recipients' credits: a message
\* that wrote and then failed on a guard is a batch_transfer refused with the
\* blacklist error at a recipient, its sender not blacklisted, and its writes
\* are the debit and the credits before that recipient; nothing of it stays.
C13_GuardsBeforeWritesButBatch ==
    [][(result' \in GuardErrors /\ writes' > 0) =>
        /\ call'.op = "batch_transfer"
        /\ result' = ErrBlacklisted
        /\ ~paused
        /\ ~is_blacklisted(call'.caller)
        /\ Len(call'.recipients) = Len(call'.amounts)
        /\ \E i \in DOMAIN call'.recipients : is_blacklisted(call'.recipients[i])
        /\ writes' = FirstBlacklisted(call')
        /\ Storage' = Storage
        /\ events' = <<>>
      ]_vars

\* C13 happens: a batch was refused at its second recipient, after the debit
\* of the sender and the credit of the first recipient were written.
C13_Witness ==
    /\ Returned("batch_transfer")
    /\ result = ErrBlacklisted
    /\ writes = 2
    /\ is_blacklisted(call.recipients[2])
    /\ ~is_blacklisted(call.recipients[1])

\* C14: batch_transfer checks the vector lengths first: a call with
\* len(recipients) # len(amounts) fails with the length error in every state,
\* also when the contract is paused or the sender is blacklisted, and changes
\* no state.
C14_LengthsCheckedFirst ==
    [][(call'.op = "batch_transfer" /\ Len(call'.recipients) # Len(call'.amounts)) =>
        result' = ErrLengths /\ Storage' = Storage
      ]_vars

\* C15: the owner is the account that called the constructor, and no call, by
\* any caller, changes it.
C15_OwnerIsDeployerForever ==
    [][(owner' = owner) /\ (owner \in Deployers)]_vars

\* C15 happens: an account other than the owner has had a successful call and
\* the owner a successful admin call, and the owner is still the deployer.
C15_Witness ==
    /\ calls = MaxCalls
    /\ Returned("blacklist")
    /\ result = Ok
    /\ call.account # owner
    /\ owner \in Deployers
    /\ \E k \in Accounts \X Accounts : k[1] # owner /\ granted[k] > 0

\* C16: blacklist(a) and unblacklist(a) change the blacklist entry of a and
\* nothing else, pause and unpause change the paused flag and nothing else:
\* no balance, no allowance, not the owner, no other account's entry, and no
\* event is emitted.
C16_AdminOpsTouchOwnFlag ==
    [][/\ call'.op \in {"blacklist", "unblacklist"} =>
            /\ UNCHANGED <<balances, allowances, paused, owner>>
            /\ \A a \in Accounts \ {call'.account} : blacklisted'[a] = blacklisted[a]
            /\ result' = Ok => blacklisted'[call'.account] = (call'.op = "blacklist")
            /\ result' # Ok => UNCHANGED blacklisted
            /\ events' = <<>>
       /\ call'.op \in {"pause", "unpause"} =>
            /\ UNCHANGED <<balances, allowances, blacklisted, owner>>
            /\ result' = Ok => paused' = (call'.op = "pause")
            /\ result' # Ok => UNCHANGED paused
            /\ events' = <<>>
      ]_vars

\* C16 happens: an account that holds a balance and has granted an allowance
\* was blacklisted, and still holds both.
C16_Witness ==
    /\ Returned("blacklist")
    /\ result = Ok
    /\ is_blacklisted(call.account)
    /\ balance_of(call.account) > 0
    /\ \E s \in Accounts : allowance(call.account, s) > 0

\* C17: the allowance entry of (o, s) changes only in a successful approve of
\* s called by o or a successful transfer_from out of o called by s; every
\* other call leaves it as it was. A transfer_from that the account from calls
\* on itself needs allowance(from, from) >= amount and consumes it.
C17_AllowanceChangesOnlyByPair ==
    [][/\ \A k \in Accounts \X Accounts :
            allowances'[k] # allowances[k] =>
                /\ result' = Ok
                /\ \/ call'.op = "approve" /\ call'.caller = k[1] /\ call'.spender = k[2]
                   \/ call'.op = "transfer_from" /\ call'.from = k[1] /\ call'.caller = k[2]
       /\ (call'.op = "transfer_from" /\ call'.caller = call'.from) =>
            LET f == call'.from
                n == call'.amount
            IN  /\ result' = Ok =>
                    /\ allowance(f, f) >= n
                    /\ allowances' = [allowances EXCEPT ![<<f, f>>] = @ - n]
                /\ allowance(f, f) < n => result' # Ok /\ Storage' = Storage
                /\ (allowance(f, f) < n /\ ~paused /\ ~is_blacklisted(f)
                    /\ ~is_blacklisted(call'.to)) => result' = ErrAllowance
      ]_vars

\* C17 happens: an account moved its own tokens to another account through
\* transfer_from, spending the allowance it had granted to itself.
C17_Witness ==
    /\ Returned("transfer_from")
    /\ result = Ok
    /\ call.caller = call.from
    /\ call.to # call.from
    /\ call.amount > 0
    /\ moved[<<call.from, call.from>>] = call.amount

\* C18: while an account a is blacklisted its balance and every allowance it
\* has granted stay as they are across every call of every caller: a call in
\* which a sends, receives, is minted to, burns, approves or is a batch
\* recipient does not succeed.
C18_BlacklistedIsFrozen ==
    [][\A a \in Accounts : is_blacklisted(a) =>
        /\ balances'[a] = balances[a]
        /\ \A s \in Accounts : allowances'[<<a, s>>] = allowances[<<a, s>>]
        /\ (\/ call'.op \in {"transfer", "burn", "approve", "batch_transfer"}
                /\ call'.caller = a
            \/ call'.op \in {"transfer", "mint", "transfer_from"} /\ call'.to = a
            \/ call'.op = "transfer_from" /\ call'.from = a
            \/ call'.op = "batch_transfer"
                /\ Len(call'.recipients) = Len(call'.amounts)
                /\ \E i \in DOMAIN call'.recipients : call'.recipients[i] = a
           ) => result' # Ok
      ]_vars

\* C18 happens: an account that holds a balance was blacklisted and then
\* refused a burn that its balance covers.
C18_Witness ==
    /\ Returned("burn")
    /\ result = ErrBlacklisted
    /\ ~paused
    /\ is_blacklisted(call.caller)
    /\ call.amount > 0
    /\ balance_of(call.caller) >= call.amount

\* C19: a transfer_from called by a blacklisted spender never succeeds and
\* changes neither the allowance nor any balance, whatever from, to, the
\* allowance and the balance are; when the contract is not paused it fails
\* with the blacklist error. approve does not look at the spender: called by
\* an account that is not blacklisted, while the contract is not paused, it
\* succeeds and stores the allowance also for a blacklisted spender.
C19_SpenderIsGuarded ==
    [][/\ (call'.op = "transfer_from" /\ is_blacklisted(call'.caller)) =>
            /\ result' # Ok
            /\ Storage' = Storage
            /\ ~paused => result' = ErrBlacklisted
       /\ (call'.op = "approve" /\ is_blacklisted(call'.spender)
           /\ ~paused /\ ~is_blacklisted(call'.caller)) =>
            /\ result' = Ok
            /\ Get(allowances', <<call'.caller, call'.spender>>, 0) = call'.amount
      ]_vars

\* C19 happens: a blacklisted spender holding a sufficient allowance from an
\* account that is not blacklisted, towards a destination that is not
\* blacklisted, was refused with the blacklist error.
C19_Witness ==
    /\ Returned("transfer_from")
    /\ result = ErrBlacklisted
    /\ ~paused
    /\ is_blacklisted(call.caller)
    /\ ~is_blacklisted(call.from)
    /\ ~is_blacklisted(call.to)
    /\ call.amount > 0
    /\ allowance(call.from, call.caller) >= call.amount

StorageOf(self) ==
    <<self.balances, self.allowances, self.blacklisted, self.paused, self.owner>>

\* C20: pause, unpause, blacklist and unblacklist called by the owner succeed
\* in every state, paused or not, owner blacklisted or not, and set their
\* flag; a second application changes nothing more. So in every state one
\* unpause by the owner gives paused = FALSE, and one unblacklist(a) by the
\* owner gives is_blacklisted(a) = FALSE.
C20_OwnerAdminNeverBlocked ==
    [][/\ (call'.op \in {"pause", "unpause"} /\ call'.caller = owner) =>
            /\ result' = Ok
            /\ paused' = (call'.op = "pause")
            /\ paused = paused' => Storage' = Storage
       /\ (call'.op \in {"blacklist", "unblacklist"} /\ call'.caller = owner) =>
            /\ result' = Ok
            /\ blacklisted'[call'.account] = (call'.op = "blacklist")
            /\ blacklisted[call'.account] = blacklisted'[call'.account] =>
                   Storage' = Storage
       /\ LET once == dispatch(SimpleToken, unpause(SimpleToken, owner))
              twice == dispatch(once.self, unpause(once.self, owner))
          IN  /\ once.res = Ok /\ ~once.self.paused
              /\ twice.res = Ok /\ StorageOf(twice.self) = StorageOf(once.self)
       /\ LET once == dispatch(SimpleToken, pause(SimpleToken, owner))
              twice == dispatch(once.self, pause(once.self, owner))
          IN  /\ once.res = Ok /\ once.self.paused
              /\ twice.res = Ok /\ StorageOf(twice.self) = StorageOf(once.self)
       /\ \A a \in Accounts :
            LET once == dispatch(SimpleToken, unblacklist(SimpleToken, owner, a))
                twice == dispatch(once.self, unblacklist(once.self, owner, a))
                on == dispatch(SimpleToken, blacklist(SimpleToken, owner, a))
                on2 == dispatch(on.self, blacklist(on.self, owner, a))
            IN  /\ once.res = Ok /\ ~once.self.blacklisted[a]
                /\ twice.res = Ok /\ StorageOf(twice.self) = StorageOf(once.self)
                /\ on.res = Ok /\ on.self.blacklisted[a]
                /\ on2.res = Ok /\ StorageOf(on2.self) = StorageOf(on.self)
      ]_vars

\* C20 happens: the owner, itself blacklisted, unpaused the contract as the
\* last of three calls.
C20_Witness ==
    /\ Returned("unpause")
    /\ call.caller = owner
    /\ result = Ok
    /\ is_blacklisted(owner)
    /\ ~paused
    /\ calls = MaxCalls

====
